---- MODULE Spec2Model ----
(***************************************************************************)
(* State-machine model of the qrng crate: the Halton and Sobol             *)
(* quasi-random sequence generators behind the QRng trait                  *)
(* (src/src/halton.rs, src/src/sobol.rs, src/src/traits.rs,                *)
(* src/src/utils.rs, src/src/with_buf.rs).                                 *)
(*                                                                         *)
(* Numbers.  The crate computes coordinates in f64.  The model keeps a     *)
(* coordinate and a Halton partial sum as an exact fraction in lowest      *)
(* terms, [n |-> numerator, d |-> denominator]: f64 rounding is not        *)
(* modelled.  The width MAX_LOG_N (48 in both halton.rs and sobol.rs) is a *)
(* parameter of the model, explored at a reduced value so that the counter *)
(* wrap at 2^MAX_LOG_N is reached; every formula is stated in terms of the *)
(* parameter, never of its value.                                          *)
(***************************************************************************)
EXTENDS Integers, Sequences, FiniteSets, TLC

\* ------------------------------------------------------------------ bounds

\* halton.rs: const MAX_LOG_N (48 in the source), the width of the Halton step counter.
HALTON_MAX_LOG_N == 5
\* sobol.rs: const MAX_LOG_N (48 in the source), the width of the Sobol step counter.
SOBOL_MAX_LOG_N == 3
\* Largest dimensionality of a Halton generator that is advanced.
MaxHaltonDim == 3
\* Largest dimensionality of a Sobol generator that is advanced.
MaxSobolDim == 2
\* Extra entries of the caller's buffer beyond ndim().
ExtraBuf == 1
\* SobolSeq::new is also tried for SOBOL_MAX_DIM - ProbeSpan .. SOBOL_MAX_DIM + ProbeSpan.
ProbeSpan == 2

\* ------------------------------------------------------------- arithmetic

RECURSIVE Pow(_, _)
Pow(b, e) == IF e = 0 THEN 1 ELSE b * Pow(b, e - 1)

RECURSIVE Gcd(_, _)
Gcd(a, b) == IF b = 0 THEN a ELSE Gcd(b, a % b)

\* The fraction n/d in lowest terms (d > 0, n >= 0).
Frac(n, d) == LET g == Gcd(n, d) IN [n |-> n \div g, d |-> d \div g]

FZero == [n |-> 0, d |-> 1]

\* f64::from(digit) + rem
FAddInt(k, r) == Frac(k * r.d + r.n, r.d)

\* x / base_f
FDivInt(r, b) == Frac(r.n, r.d * b)

FLess(a, b) == a.n * b.d < b.n * a.d

\* Bitwise XOR of two naturals (u64 ^ u64).
RECURSIVE Xor(_, _)
Xor(a, b) ==
    IF a = 0 THEN b
    ELSE IF b = 0 THEN a
    ELSE ((a + b) % 2) + 2 * Xor(a \div 2, b \div 2)

\* x >> s and x << s on u64 (no bit is shifted out in the ranges used).
Shr(x, s) == x \div Pow(2, s)
Shl(x, s) == x * Pow(2, s)

\* (!x).trailing_zeros(): the number of trailing one bits of x.
RECURSIVE TrailingOnes(_)
TrailingOnes(x) == IF x % 2 = 1 THEN 1 + TrailingOnes(x \div 2) ELSE 0

Min(a, b) == IF a < b THEN a ELSE b

\* ------------------------------------------------------------ utils.rs

\* PrimeSeq::new
PrimeSeqNew == [primes |-> <<2, 3>>, index |-> 0]

\* The `for &p in &self.primes` loop on candidate x, from position i:
\* TRUE when the loop ends without `continue 'outer` (x is pushed).
RECURSIVE NoDivisor(_, _, _)
NoDivisor(primes, x, i) ==
    IF i > Len(primes) THEN TRUE
    ELSE IF x % primes[i] = 0 THEN FALSE
    ELSE IF primes[i] * primes[i] > x THEN TRUE
    ELSE NoDivisor(primes, x, i + 1)

\* The 'outer loop: x += 2 until a candidate survives the trial division.
RECURSIVE NextCandidate(_, _)
NextCandidate(primes, x) ==
    IF NoDivisor(primes, x + 2, 1) THEN x + 2 ELSE NextCandidate(primes, x + 2)

\* The `while self.primes.len() <= self.index` loop of PrimeSeq::next.
RECURSIVE ExtendPrimes(_, _)
ExtendPrimes(primes, index) ==
    IF Len(primes) <= index
    THEN ExtendPrimes(Append(primes, NextCandidate(primes, primes[Len(primes)])), index)
    ELSE primes

\* PrimeSeq::next: the iterator after the call and the item it returns.
PrimeSeqNext(ps) ==
    LET primes == ExtendPrimes(ps.primes, ps.index)
    IN [seq |-> [primes |-> primes, index |-> ps.index + 1],
        item |-> primes[ps.index + 1]]

\* primes().take(n) collected.
RECURSIVE TakePrimes(_, _)
TakePrimes(ps, n) ==
    IF n = 0 THEN <<>>
    ELSE LET r == PrimeSeqNext(ps) IN <<r.item>> \o TakePrimes(r.seq, n - 1)

\* ------------------------------------------------------------ halton.rs

\* HaltonSeq1D::new
HaltonSeq1DNew(base) ==
    [base |-> base, digits |-> <<0>>, remainders |-> <<FZero>>, next_power |-> 1]

\* Mutant of HaltonSeq1D::reset: the digits are not cleared.
HaltonSeq1DResetKeepsDigits(s) ==
    [s EXCEPT !.remainders = [i \in 1..Len(s.digits) |-> FZero], !.next_power = 1]

\* HaltonSeq1D::reset
HaltonSeq1DReset(s) ==
    [s EXCEPT !.digits = <<0>>, !.remainders = <<FZero>>, !.next_power = 1]

\* The do-while carry loop of HaltonSeq1D::next, entered with k carries done
\* so far: zero digit k (0-based k-1 after the increment), increment the next
\* one, repeat while it equals the base.  Positions are 1-based here.
RECURSIVE CarryLoop(_, _, _)
CarryLoop(digits, k, base) ==
    LET k1 == k + 1
        d1 == [digits EXCEPT ![k1] = 0, ![k1 + 1] = digits[k1 + 1] + 1]
    IN IF d1[k1 + 1] = base THEN CarryLoop(d1, k1, base)
       ELSE [digits |-> d1, k |-> k1]

\* Mutant of the partial-sum loop: it runs over (2..k), leaving rem[0] stale.
RECURSIVE ShiftRemaindersStopsEarly(_, _, _)
ShiftRemaindersStopsEarly(rem, i, base) ==
    IF i < 2 THEN rem
    ELSE ShiftRemaindersStopsEarly([rem EXCEPT ![i] = FDivInt(rem[i + 1], base)], i - 1, base)

\* for i in (1..k).rev() { rem[i - 1] = rem[i] / base_f }, from 0-based i down to 1.
RECURSIVE ShiftRemainders(_, _, _)
ShiftRemainders(rem, i, base) ==
    IF i < 1 THEN rem
    ELSE ShiftRemainders([rem EXCEPT ![i] = FDivInt(rem[i + 1], base)], i - 1, base)

\* HaltonSeq1D::next(index): the axis state after the call and the value returned.
HaltonSeq1DNext(s, index) ==
    LET grow == (index = s.next_power)
        digits0 == IF grow THEN Append(s.digits, 0) ELSE s.digits
        rem0 == IF grow THEN Append(s.remainders, FZero) ELSE s.remainders
        np == IF grow THEN s.next_power * s.base ELSE s.next_power
        digits1 == [digits0 EXCEPT ![1] = digits0[1] + 1]
    IN IF digits1[1] = s.base
       THEN LET c == CarryLoop(digits1, 0, s.base)
                k == c.k
                rem1 == [rem0 EXCEPT ![k] = FDivInt(FAddInt(c.digits[k + 1], rem0[k + 1]), s.base)]
                rem2 == ShiftRemainders(rem1, k - 1, s.base)
            IN [seq |-> [s EXCEPT !.digits = c.digits, !.remainders = rem2, !.next_power = np],
                h |-> FDivInt(rem2[1], s.base)]
       ELSE [seq |-> [s EXCEPT !.digits = digits1, !.remainders = rem0, !.next_power = np],
             h |-> FDivInt(FAddInt(digits1[1], rem0[1]), s.base)]

\* HaltonSeq::new
HaltonSeqNew(ndim) ==
    LET bases == TakePrimes(PrimeSeqNew, ndim)
    IN [index |-> 0, seqs |-> [i \in 1..ndim |-> HaltonSeq1DNew(bases[i])]]

\* Mutant of the wrap test: `>` for `>=`.
HaltonWrapsLate(g) == g.index > Pow(2, HALTON_MAX_LOG_N)

\* if self.index >= (1 << MAX_LOG_N)
HaltonWraps(g) == g.index >= Pow(2, HALTON_MAX_LOG_N)

\* HaltonSeq::gen_fill_unchecked: the generator after the call and the ndim()
\* values written to out[0..ndim()).
HaltonGenFillUnchecked(g) ==
    LET wrap == HaltonWraps(g)
        seqs0 == IF wrap THEN [i \in 1..Len(g.seqs) |-> HaltonSeq1DReset(g.seqs[i])]
                 ELSE g.seqs
        index1 == (IF wrap THEN 0 ELSE g.index) + 1
        r == [i \in 1..Len(seqs0) |-> HaltonSeq1DNext(seqs0[i], index1)]
    IN [gen |-> [g EXCEPT !.index = index1, !.seqs = [i \in 1..Len(seqs0) |-> r[i].seq]],
        coords |-> [i \in 1..Len(seqs0) |-> r[i].h]]

\* ------------------------------------------------------------- sobol.rs

VARIABLES
    sobol_high_dim, \* the build feature "sobol-high-dim"
    ctor,           \* the constructor call made: [kind, ndim, ok, dim]
    gen,            \* the generator: a HaltonSeq or a SobolSeq
    out,            \* the caller's buffer
    arg,            \* the length of the slice handed to the last advance call
    err,            \* the panic raised by the last call, "none" when it returned
    hist            \* the samples written so far, one per successful advance

vars == <<sobol_high_dim, ctor, gen, out, arg, err, hist>>

\* assets::SOBOL_MAX_DIM without and with the feature "sobol-high-dim".
SOBOL_MAX_DIM_LIM == 1111
SOBOL_MAX_DIM_ALL == 21201
SOBOL_MAX_DIM == IF sobol_high_dim THEN SOBOL_MAX_DIM_ALL ELSE SOBOL_MAX_DIM_LIM

\* The first rows of assets::SOBOL_LOCS, SOBOL_COEF and SOBOL_DNUM, as
\* test_raw_data pins them for get_raw_data(0) .. get_raw_data(7).
SOBOL_LOCS == <<0, 0, 1, 3, 5, 8, 11, 15, 19>>
SOBOL_COEF == <<0, 1, 1, 2, 1, 4, 2, 4>>
SOBOL_DNUM == <<1, 1, 0, 0, 0, 0, 1, 1, 1, 2, 6, 0, 2, 2, 8, 0, 2, 2, 2>>

\* Mutant of the guard of get_raw_data: index + 1 for index + 2.
GetRawDataPanicsLate(index) == index + 1 > SOBOL_MAX_DIM

\* The guard of get_raw_data: TRUE when it panics with "invalid Sobol
\* sequence dimension: {index + 2}".
GetRawDataPanics(index) == index + 2 > SOBOL_MAX_DIM

\* get_raw_data(index) when it returns: (SOBOL_COEF[index], &SOBOL_DNUM[start..end]).
GetRawData(index) ==
    LET start == SOBOL_LOCS[index + 1]
        end == SOBOL_LOCS[index + 2]
    IN [coef |-> SOBOL_COEF[index + 1], m |-> SubSeq(SOBOL_DNUM, start + 1, end)]

\* The inner `for _ in 1..s` loop of get_dirnums: cnt rounds left, k 0-based.
RECURSIVE CoefLoop(_, _, _, _, _)
CoefLoop(x, coef_s, dirnums, k, cnt) ==
    IF cnt = 0 THEN x
    ELSE CoefLoop(Xor(x, (coef_s % 2) * dirnums[k + 1]), coef_s \div 2, dirnums, k + 1, cnt - 1)

\* Mutant of the recurrence of get_dirnums: the term dk >> s is left out.
NextDirnumNoShift(dirnums, i, s, coef) ==
    LET k == i - s
        dk == dirnums[k + 1]
    IN CoefLoop(dk, coef, dirnums, k + 1, s - 1)

\* Entry i >= s of get_dirnums from the entries before it: the body of the
\* `for i in s..MAX_LOG_N` loop.
NextDirnum(dirnums, i, s, coef) ==
    LET k == i - s
        dk == dirnums[k + 1]
    IN CoefLoop(Xor(dk, Shr(dk, s)), coef, dirnums, k + 1, s - 1)

\* The loops of get_dirnums for axis > 0, entry i (0-based) onwards; dirnums
\* holds the entries 0 .. i-1.
RECURSIVE FillDirnums(_, _, _, _, _)
FillDirnums(dirnums, i, s, coef, m) ==
    LET MAX == SOBOL_MAX_LOG_N - 1
    IN IF i >= SOBOL_MAX_LOG_N THEN dirnums
       ELSE IF i = 0 THEN FillDirnums(<<Shl(1, MAX)>>, 1, s, coef, m)
       ELSE IF i < Min(s, SOBOL_MAX_LOG_N)
       THEN FillDirnums(Append(dirnums, Shl(m[i] * 2 + 1, MAX - i)), i + 1, s, coef, m)
       ELSE FillDirnums(Append(dirnums, NextDirnum(dirnums, i, s, coef)), i + 1, s, coef, m)

\* get_dirnums(axis, ..): the MAX_LOG_N direction numbers of one axis.
GetDirnums(axis) ==
    IF axis = 0
    THEN [i \in 1..SOBOL_MAX_LOG_N |-> Shl(1, (SOBOL_MAX_LOG_N - 1) - (i - 1))]
    ELSE LET raw == GetRawData(axis - 1)
         IN FillDirnums(<<>>, 0, Len(raw.m) + 1, raw.coef, raw.m)

\* Mutant of get_dirnums: get_raw_data(axis) for get_raw_data(axis - 1).
PanicAxesByAxis(ndim) == {i \in 1..(ndim - 1) : GetRawDataPanics(i)}

\* The axes of SobolSeq::new(ndim) whose get_dirnums call panics in get_raw_data.
PanicAxes(ndim) == {i \in 1..(ndim - 1) : GetRawDataPanics(i - 1)}

\* SobolSeq::new(ndim) when no get_raw_data call panics: entry i * stride of
\* the slice dirnums[axis..] is entry i * ndim + axis of the matrix.
SobolSeqNew(ndim) ==
    LET rows == [j \in 1..ndim |-> GetDirnums(j - 1)]
    IN [ndim |-> ndim,
        dirnums |-> [p \in 1..(ndim * SOBOL_MAX_LOG_N) |->
                        rows[((p - 1) % ndim) + 1][((p - 1) \div ndim) + 1]],
        value |-> [j \in 1..ndim |-> 0],
        index |-> 0]

\* The words a u64 read can return: the low MAX_LOG_N bits take every value,
\* and the word 2^MAX_LOG_N stands for the words with a bit set above them.
Words == 0..Pow(2, SOBOL_MAX_LOG_N)

\* `c` of SobolSeq::gen_fill_unchecked.
SobolRow(g) == TrailingOnes(g.index)

\* TRUE when *v.get_unchecked(j) reads past the end of dirnums.
SobolReadOutside(g) == SobolRow(g) * g.ndim >= Len(g.dirnums)

\* What the reads of one call can return past the end of the matrix: any word per axis.
StrayReads(g) ==
    IF SobolReadOutside(g) THEN [1..g.ndim -> Words] ELSE {[j \in 1..g.ndim |-> 0]}

\* SobolSeq::gen_fill_unchecked, with w[j] what the read of axis j returns
\* when it is outside the matrix.
SobolGenFillUnchecked(g, w) ==
    LET c == SobolRow(g)
        v == [j \in 1..g.ndim |->
                IF c * g.ndim + j <= Len(g.dirnums) THEN g.dirnums[c * g.ndim + j] ELSE w[j]]
        value1 == [j \in 1..g.ndim |-> Xor(g.value[j], v[j])]
    IN [gen |-> [g EXCEPT !.value = value1,
                          !.index = (g.index + 1) % Pow(2, SOBOL_MAX_LOG_N)],
        coords |-> [j \in 1..g.ndim |-> Frac(value1[j], Pow(2, SOBOL_MAX_LOG_N))]]

\* ------------------------------------------------- traits.rs, with_buf.rs

\* The generator variable holds either struct; the fields of the other are empty.
NoGen == [kind |-> "none", index |-> 0, seqs |-> <<>>, ndim |-> 0, dirnums |-> <<>>, value |-> <<>>]

HaltonGen(h) == [NoGen EXCEPT !.kind = "halton", !.index = h.index, !.seqs = h.seqs]

SobolGen(s) ==
    [NoGen EXCEPT !.kind = "sobol", !.index = s.index, !.ndim = s.ndim,
                  !.dirnums = s.dirnums, !.value = s.value]

\* QRng::ndim of HaltonSeq (seqs.len()) and of SobolSeq (the field).
Ndim(g) == IF g.kind = "halton" THEN Len(g.seqs) ELSE g.ndim

\* QRng::gen_fill_unchecked, dispatched on the implementing type.
GenFillUnchecked(g, w) ==
    IF g.kind = "halton" THEN HaltonGenFillUnchecked(g) ELSE SobolGenFillUnchecked(g, w)

\* The buffer after *out.get_unchecked_mut(i) = .. for i in 0..ndim().
WriteOut(buf, coords) ==
    [i \in 1..Len(buf) |-> IF i <= Len(coords) THEN coords[i] ELSE buf[i]]

\* A Halton generator is followed for two periods of its counter and two calls more.
MaxCalls == 2 * Pow(2, HALTON_MAX_LOG_N) + 2

\* The dimensionalities SobolSeq::new is called with.
SobolDims ==
    (1..MaxSobolDim) \cup ((SOBOL_MAX_DIM - ProbeSpan)..(SOBOL_MAX_DIM + ProbeSpan))

NoCtor == [kind |-> "none", ndim |-> 0, ok |-> TRUE, dim |-> 0]

Init ==
    /\ sobol_high_dim \in BOOLEAN
    /\ ctor = NoCtor
    /\ gen = NoGen
    /\ out = <<>>
    /\ arg = 0
    /\ err = "none"
    /\ hist = <<>>

\* let mut seq = HaltonSeq::new(ndim); let mut buf = vec![0.; ndim + ExtraBuf];
HaltonNew(ndim) ==
    /\ ctor = NoCtor
    /\ ctor' = [kind |-> "halton", ndim |-> ndim, ok |-> TRUE, dim |-> 0]
    /\ gen' = HaltonGen(HaltonSeqNew(ndim))
    /\ out' = [i \in 1..(ndim + ExtraBuf) |-> FZero]
    /\ err' = "none"
    /\ UNCHANGED <<sobol_high_dim, arg, hist>>

\* let mut seq = SobolSeq::new(ndim); let mut buf = vec![0.; ndim + ExtraBuf];
\* The loop calls get_dirnums for axis 0, 1, ..: the first axis whose
\* get_raw_data panics ends the call, and `dim` is the dimension the panic
\* reports.  The matrix is built for ndim <= MaxSobolDim only: the table rows
\* of the higher axes are asset files, and such a generator is not advanced.
SobolNew(ndim) ==
    /\ ctor = NoCtor
    /\ UNCHANGED <<sobol_high_dim, arg, hist>>
    /\ LET bad == PanicAxes(ndim)
       IN IF bad # {}
          THEN LET axis == CHOOSE i \in bad : \A k \in bad : i <= k
               IN /\ ctor' = [kind |-> "sobol", ndim |-> ndim, ok |-> FALSE,
                              dim |-> (axis - 1) + 2]
                  /\ err' = "dimension"
                  /\ UNCHANGED <<gen, out>>
          ELSE /\ ctor' = [kind |-> "sobol", ndim |-> ndim, ok |-> TRUE, dim |-> 0]
               /\ err' = "none"
               /\ IF ndim <= MaxSobolDim
                  THEN /\ gen' = SobolGen(SobolSeqNew(ndim))
                       /\ out' = [i \in 1..(ndim + ExtraBuf) |-> FZero]
                  ELSE UNCHANGED <<gen, out>>

\* One call of gen_fill_unchecked on the first ndim() entries of the buffer.
\* A read outside the direction-number matrix is undefined behaviour: the
\* accumulators take what the reads return, and the generator is not
\* followed past that call (err = "undefined").
Advance ==
    /\ Len(hist) < MaxCalls
    /\ \E w \in (IF gen.kind = "sobol" THEN StrayReads(gen) ELSE {<<>>}) :
          LET r == GenFillUnchecked(gen, w)
          IN /\ gen' = r.gen
             /\ out' = WriteOut(out, r.coords)
             /\ hist' = Append(hist, r.coords)
             /\ err' = IF gen.kind = "sobol" /\ SobolReadOutside(gen)
                       THEN "undefined" ELSE "none"
    /\ UNCHANGED <<sobol_high_dim, ctor>>

\* Mutant of the length check of gen_fill: off by one.
BufferTooSmallOffByOne(len, g) == len + 1 < Ndim(g)

\* if out.len() < self.ndim()
BufferTooSmall(len, g) == len < Ndim(g)

\* QRng::gen_fill(&mut buf[..len])
GenFill(len) ==
    /\ gen.kind # "none"
    /\ err # "undefined"
    /\ arg' = len
    /\ IF BufferTooSmall(len, gen)
       THEN /\ err' = "bounds"
            /\ UNCHANGED <<sobol_high_dim, ctor, gen, out, hist>>
       ELSE Advance

\* QRngWithBuf::gen, the wrapper's buffer being the first ndim() entries.
Gen ==
    /\ gen.kind # "none"
    /\ err # "undefined"
    /\ arg' = Ndim(gen)
    /\ Advance

Next ==
    \/ \E ndim \in 1..MaxHaltonDim : HaltonNew(ndim)
    \/ \E ndim \in SobolDims : SobolNew(ndim)
    \/ \E len \in 0..Len(out) : GenFill(len)
    \/ Gen

Spec == Init /\ [][Next]_vars

\* ------------------------------------------------ reference definitions

IsPrime(p) == p > 1 /\ \A q \in 2..(p - 1) : p % q # 0

\* The i-th prime, i = 1, 2, ..: 2, 3, 5, 7, 11, ..
NthPrime(i) ==
    CHOOSE p \in 2..(i * i + 1) :
        IsPrime(p) /\ Cardinality({q \in 2..(p - 1) : IsPrime(q)}) = i - 1

\* The radical inverse of n in base b: the base-b digits of n mirrored about
\* the radix point.
RECURSIVE RadicalInverse(_, _)
RadicalInverse(n, b) ==
    IF n = 0 THEN FZero
    ELSE FDivInt(FAddInt(n % b, RadicalInverse(n \div b, b)), b)

\* The number whose base-b digits, least significant first, are `digits`.
RECURSIVE DigitsValue(_, _)
DigitsValue(digits, b) ==
    IF digits = <<>> THEN 0 ELSE Head(digits) + b * DigitsValue(Tail(digits), b)

HaltonPeriod == Pow(2, HALTON_MAX_LOG_N)
SobolPeriod == Pow(2, SOBOL_MAX_LOG_N)

\* The Gray code of n.
Gray(n) == Xor(n, n \div 2)

\* The XOR of the direction numbers of axis j (1-based) of matrix g.dirnums
\* at the bit positions i, i+1, .. set in `code`.
RECURSIVE XorOfRows(_, _, _, _)
XorOfRows(g, j, code, i) ==
    IF i >= SOBOL_MAX_LOG_N THEN 0
    ELSE Xor(IF (code \div Pow(2, i)) % 2 = 1 THEN g.dirnums[i * g.ndim + j] ELSE 0,
             XorOfRows(g, j, code, i + 1))

\* Point n of the Gray-code Sobol sequence on axis j, as an integer.
SobolPoint(g, j, n) == XorOfRows(g, j, Gray(n), 0)

\* The index k of the interval [k/2^m, (k+1)/2^m) that holds x.
Cell(x, m) == (x.n * Pow(2, m)) \div x.d

FOne == [n |-> 1, d |-> 1]

IsHalton == gen.kind = "halton"
IsSobol == gen.kind = "sobol"

\* ---------------------------------------------------------------- claims

\* C1 as stated: for every n = 1, 2, 3, .. the n-th advance call on a fresh
\* HaltonSeq writes, on every axis i, the radical inverse of n in the base
\* that is the (i+1)-th prime.
C1_RadicalInverseOfEveryCall ==
    IsHalton =>
        \A n \in 1..Len(hist) : \A i \in 1..Len(gen.seqs) :
            hist[n][i] = RadicalInverse(n, NthPrime(i))

\* C1 amended: the n-th advance call on a fresh HaltonSeq writes, on every
\* axis i, the radical inverse of n in the (i+1)-th prime base for every n
\* from 1 to 2^MAX_LOG_N; all axes use the same n.
C1_RadicalInverseUpToWrap ==
    IsHalton =>
        \A n \in 1..Min(Len(hist), HaltonPeriod) : \A i \in 1..Len(gen.seqs) :
            hist[n][i] = RadicalInverse(n, NthPrime(i))

\* A generator of three axes that has made a three-digit carry in base 3.
C1_Witness ==
    /\ IsHalton
    /\ Len(gen.seqs) = 3
    /\ Len(hist) = 27
    /\ hist[27] = <<Frac(27, 32), Frac(1, 81), Frac(51, 125)>>

\* C7: the Halton counter wraps at 2^MAX_LOG_N.  The call made with the
\* counter at 2^MAX_LOG_N resets the counter and every axis to its fresh
\* state and then advances, so the state after it is the state after the
\* first call; sample n + 2^MAX_LOG_N equals sample n for every n, and no two
\* samples within one period are equal.
C7_HaltonPeriodic ==
    IsHalton =>
        /\ gen.index <= HaltonPeriod
        /\ Len(hist) > 0 => gen.index = ((Len(hist) - 1) % HaltonPeriod) + 1
        /\ \A n \in 1..Len(hist) :
               n + HaltonPeriod <= Len(hist) => hist[n + HaltonPeriod] = hist[n]
        /\ \A m, n \in 1..Min(Len(hist), HaltonPeriod) : m < n => hist[m] # hist[n]
        /\ Len(hist) = HaltonPeriod + 1 =>
               \A i \in 1..Len(gen.seqs) :
                   /\ gen.seqs[i].digits = <<1, 0>>
                   /\ gen.seqs[i].remainders = <<FZero, FZero>>
                   /\ gen.seqs[i].next_power = gen.seqs[i].base

\* A generator in its third period.
C7_Witness ==
    /\ IsHalton
    /\ Len(gen.seqs) = 2
    /\ Len(hist) = 2 * HaltonPeriod + 2
    /\ gen.index = 2

\* C10: between advance calls every Halton axis has digits and remainders of
\* equal length, every digit below the base, and the digits, least
\* significant first, are the base-b expansion of the step counter; also
\* after the counter has wrapped.
C10_DigitsOfCounter ==
    IsHalton =>
        \A i \in 1..Len(gen.seqs) :
            LET a == gen.seqs[i]
            IN /\ Len(a.digits) = Len(a.remainders)
               /\ \A k \in 1..Len(a.digits) : a.digits[k] < a.base
               /\ DigitsValue(a.digits, a.base) = gen.index

\* A generator past the wrap whose counter has two digits in base 3.
C10_Witness ==
    /\ IsHalton
    /\ Len(gen.seqs) >= 2
    /\ Len(hist) > HaltonPeriod
    /\ gen.index = 8
    /\ gen.seqs[2].digits = <<2, 2, 0>>

\* C2 as stated: in every reachable state of a SobolSeq every accumulator
\* value[j] is the XOR of the direction numbers of axis j at the bits set in
\* the Gray code of the step counter, and the coordinate written by the last
\* advance call is value[j] / 2^MAX_LOG_N.
C2_GrayCodeAccumulators ==
    IsSobol =>
        \A j \in 1..gen.ndim :
            /\ gen.value[j] = SobolPoint(gen, j, gen.index)
            /\ Len(hist) > 0 =>
                   hist[Len(hist)][j] = Frac(gen.value[j], SobolPeriod)

\* C3 as stated: every coordinate written by every advance call of a
\* HaltonSeq or SobolSeq is >= 0 and < 1.
C3_UnitInterval ==
    \A n \in 1..Len(hist) : \A i \in 1..Len(hist[n]) :
        /\ hist[n][i].n >= 0
        /\ FLess(hist[n][i], FOne)

\* A step that is a gen_fill call (not a constructor call).
IsCall == ctor' = ctor /\ gen.kind # "none" /\ vars' # vars

\* Sample number n of the sequence of generator g, from its definition
\* (n <= 2^MAX_LOG_N for Halton, n < 2^MAX_LOG_N for Sobol).
SampleOf(g, n) ==
    IF g.kind = "halton"
    THEN [i \in 1..Len(g.seqs) |-> RadicalInverse(n, NthPrime(i))]
    ELSE [j \in 1..g.ndim |-> Frac(SobolPoint(g, j, n), SobolPeriod)]

\* C4: a checked advance with a slice shorter than ndim() fails with the
\* bounds error and changes neither the generator nor the buffer; one with a
\* slice of at least ndim() entries does not fail; and the checked advance
\* that succeeds after a failed one writes the sample the sequence has at
\* that position, as if the failed call had not been made.
C4_FailedCallChangesNothing ==
    [][IsCall =>
          /\ arg' < Ndim(gen) =>
                 err' = "bounds" /\ gen' = gen /\ out' = out /\ hist' = hist
          /\ arg' >= Ndim(gen) =>
                 err' # "bounds" /\ Len(hist') = Len(hist) + 1
          /\ (err = "bounds" /\ err' = "none") =>
                 LET pos == IF IsHalton THEN (Len(hist) % HaltonPeriod) + 1
                            ELSE Len(hist) + 1
                 IN /\ hist' = Append(hist, SampleOf(gen, pos))
                    /\ SubSeq(out', 1, Ndim(gen)) = SampleOf(gen, pos)
                    /\ SubSeq(out', Ndim(gen) + 1, Len(out)) =
                           SubSeq(out, Ndim(gen) + 1, Len(out))
      ]_vars

\* A failed checked advance on a generator that has already produced samples.
C4_Witness ==
    /\ err = "bounds"
    /\ arg < Ndim(gen)
    /\ Len(hist) >= 3
    /\ out[1] = hist[Len(hist)][1]

\* C5: SobolSeq::new(ndim) fails with the invalid-dimension panic exactly when
\* ndim > SOBOL_MAX_DIM, and get_raw_data(index) returns for every
\* index <= SOBOL_MAX_DIM - 2 and panics for index = SOBOL_MAX_DIM - 1 (and above).
C5_NewFailsAboveMaxDim ==
    ctor.kind = "sobol" =>
        /\ ctor.ok <=> ctor.ndim <= SOBOL_MAX_DIM
        /\ ctor.ok <=> err # "dimension"
        /\ ctor.ndim > MaxSobolDim =>
               \A index \in 0..(SOBOL_MAX_DIM + 1) :
                   GetRawDataPanics(index) <=> index > SOBOL_MAX_DIM - 2

\* SobolSeq::new(SOBOL_MAX_DIM + 1) has panicked.
C5_Witness ==
    /\ ctor.kind = "sobol"
    /\ ctor.ndim = SOBOL_MAX_DIM + 1
    /\ ~ctor.ok
    /\ err = "dimension"

\* C6 as stated: for every m in 0..MAX_LOG_N and every axis, each interval
\* [k/2^m, (k+1)/2^m) holds the coordinate of exactly one of the first 2^m
\* samples of a fresh SobolSeq.
C6_FirstPowerOfTwoSamples ==
    IsSobol =>
        \A m \in 0..SOBOL_MAX_LOG_N :
            Len(hist) = Pow(2, m) =>
                \A j \in 1..gen.ndim : \A k \in 0..(Pow(2, m) - 1) :
                    Cardinality({n \in 1..Pow(2, m) : Cell(hist[n][j], m) = k}) = 1

\* C6 amended: for every m in 0..MAX_LOG_N and every axis, the first 2^m - 1
\* samples of a fresh SobolSeq fall one each into the intervals
\* [k/2^m, (k+1)/2^m), k = 1 .. 2^m - 1, and none into [0, 1/2^m): the
\* generator skips the point 0 of the sequence.
C6_EquidistributedWithoutOrigin ==
    IsSobol =>
        \A m \in 0..SOBOL_MAX_LOG_N :
            Len(hist) = Pow(2, m) - 1 =>
                \A j \in 1..gen.ndim :
                    /\ \A k \in 1..(Pow(2, m) - 1) :
                           Cardinality({n \in 1..(Pow(2, m) - 1) :
                                           Cell(hist[n][j], m) = k}) = 1
                    /\ \A n \in 1..(Pow(2, m) - 1) : Cell(hist[n][j], m) # 0

\* A two-axis generator that has written 2^MAX_LOG_N - 1 samples.
C6_Witness ==
    /\ IsSobol
    /\ gen.ndim = 2
    /\ Len(hist) = SobolPeriod - 1
    /\ hist[3] = <<Frac(1, 4), Frac(3, 4)>>

\* C8 as stated: after 2^MAX_LOG_N advance calls the step counter and the
\* accumulators of a SobolSeq equal those of the fresh generator, so the
\* sequence repeats with period 2^MAX_LOG_N.
C8_SobolStateRepeats ==
    (IsSobol /\ Len(hist) = SobolPeriod) =>
        /\ gen.index = 0
        /\ \A j \in 1..gen.ndim : gen.value[j] = 0

\* C9 as stated: SobolSeq::new(ndim) fails with the invalid-dimension panic
\* whenever ndim + 2 > SOBOL_MAX_DIM.
C9_NewFailsFromMaxDimMinusOne ==
    (ctor.kind = "sobol" /\ ctor.ndim + 2 > SOBOL_MAX_DIM) =>
        ~ctor.ok /\ err = "dimension"

\* C9 amended: SobolSeq::new(ndim) fails with the invalid-dimension panic if
\* and only if (ndim - 2) + 2 > SOBOL_MAX_DIM, ndim - 2 being the table index
\* of the last axis; it returns for ndim = SOBOL_MAX_DIM - 1 and for
\* ndim = SOBOL_MAX_DIM, and the panic reports dimension SOBOL_MAX_DIM + 1.
C9_NewFailsOnLastAxisIndex ==
    ctor.kind = "sobol" =>
        /\ ~ctor.ok <=> (ctor.ndim - 2) + 2 > SOBOL_MAX_DIM
        /\ ctor.ndim \in {SOBOL_MAX_DIM - 1, SOBOL_MAX_DIM} => ctor.ok /\ err = "none"
        /\ ~ctor.ok => err = "dimension" /\ ctor.dim = SOBOL_MAX_DIM + 1

\* SobolSeq::new(SOBOL_MAX_DIM - 1) has returned.
C9_Witness ==
    /\ ctor.kind = "sobol"
    /\ ctor.ndim = SOBOL_MAX_DIM - 1
    /\ ctor.ok
    /\ err = "none"

\* C11 as stated: for every reachable value of the step counter of a
\* SobolSeq the row c = number of trailing one bits of the counter is below
\* MAX_LOG_N, so the read of entry c * ndim + j is inside the
\* ndim x MAX_LOG_N direction-number matrix for every axis j, and no advance
\* call has read outside it.
C11_RowInsideMatrix ==
    /\ IsSobol =>
           /\ gen.index \in 0..(SobolPeriod - 1)
           /\ SobolRow(gen) < SOBOL_MAX_LOG_N
           /\ \A j \in 1..gen.ndim : SobolRow(gen) * gen.ndim + j <= Len(gen.dirnums)
    /\ err # "undefined"

====
